---- MODULE Spec2Model ----
(***************************************************************************)
(* Anne Pro lighting driver (keyboards/anne_pro/anne_pro_lighting.c) and   *)
(* the UART transmit ring buffer it drives (uart_tx_ringbuf).              *)
(*                                                                         *)
(* The lighting driver is translated from anne_pro_lighting.c.  The ring   *)
(* buffer implementation is not part of the sources at hand; its           *)
(* operations (write, start_transmission, finish_transmission, empty) are  *)
(* modelled from the design description of the transmit queue.             *)
(*                                                                         *)
(* Two specifications share the variables:                                 *)
(*   SpecQ  the transmit queue alone, with the producer's write and        *)
(*          start_transmission split into their individual steps so that   *)
(*          the completion interrupt can preempt between them;             *)
(*   Spec   the lighting controller driving its 256-byte queue, one action *)
(*          per handler, with the settle delay of on() as a preemption     *)
(*          point.                                                         *)
(***************************************************************************)
EXTENDS Integers, Sequences, FiniteSets, TLC

\* ------------------------------------------------------------------------
\* Bounds of the model
\* ------------------------------------------------------------------------
QSize == 4          \* capacity of the queue constructed in SpecQ
MaxWriteLen == 3    \* longest write issued in SpecQ
MaxWrites == 3      \* number of write calls in SpecQ
MaxOps == 3         \* number of controller operations in Spec
MaxBusy == 2        \* start_transmission calls on a busy transmitter counted

\* ------------------------------------------------------------------------
\* Program constants
\* ------------------------------------------------------------------------
BufSize == 256      \* sizeof(led_uart_tx_buffer)
MATRIX_COLS == 14
USB_LED_CAPS_LOCK == 1
APL_MODE_OFF == 0

Byte(n) == n % 256

VARIABLES
    led_uart_ringbuf,   \* the uart_tx_ringbuf_t structure, buffer included
    uart,               \* transmitter of LED_UART: "idle", "armed", "done"
    sink,               \* bytes that went out on the wire, in order
    leds_awake,
    backlight_active,
    capslock_active,
    pin,                \* level of the power pin C15
    keystate,           \* the 12-byte keystate packet
    pc,                 \* position of the producer (normal execution context)
    cont,               \* what on() returns into after its delay
    wdata,              \* argument of the write in progress (SpecQ)
    reg,                \* register holding pending_writes during ++ (SpecQ)
    op,                 \* history: last operation begun by the producer
    pre,                \* history: the three flags when that operation began
    nops,               \* history: number of producer operations so far
    written,            \* history: every byte handed to write, in call order
    freed,              \* history: number of bytes released by finish
    nwrites,            \* history: number of completed write calls
    nfinish,            \* history: number of finish_transmission calls
    arg,                \* history: the arguments of that operation
    keys_down,          \* history: matrix positions of the keys held down
    busy_starts         \* history: start_transmission calls that found the
                        \* hardware transmitting (SpecQ, counted to MaxBusy)

qvars == <<led_uart_ringbuf, uart, sink>>
lvars == <<leds_awake, backlight_active, capslock_active, pin, keystate>>
pvars == <<pc, cont, wdata, reg>>
hvars == <<op, pre, nops, written, freed, nwrites, nfinish, arg, keys_down,
           busy_starts>>
vars == <<led_uart_ringbuf, uart, sink, leds_awake, backlight_active,
          capslock_active, pin, keystate, pc, cont, wdata, reg, op, pre,
          nops, written, freed, nwrites, nfinish, arg, keys_down,
          busy_starts>>

\* ------------------------------------------------------------------------
\* Transmit queue (uart_tx_ringbuf)
\* ------------------------------------------------------------------------

\* The structure as initialised at its definition, for a buffer of sz bytes.
RingbufInit(sz) ==
    [buf |-> [i \in 0..(sz - 1) |-> 0],
     size |-> sz,
     sending_elements |-> 0,
     head |-> 0,
     tail |-> 0,
     pending_writes |-> 0]

\* is_empty(): head == tail
Empty(rb) == rb.head = rb.tail

\* Bytes between head and tail, modulo the capacity.
Elements(rb) == (rb.tail - rb.head) % rb.size

\* write, step 1: copy the bytes to the slots following tail, wrapping at
\* the end of the buffer; there is no overflow check, a later byte landing
\* on the slot of an earlier one replaces it.
CopyIn(rb, data) ==
    LET n == Len(data)
        K(i) == LET d == (i - rb.tail) % rb.size
                IN  IF d + 1 > n THEN 0
                    ELSE d + 1 + rb.size * ((n - d - 1) \div rb.size)
    IN  [rb EXCEPT !.buf = [i \in 0..(rb.size - 1) |->
                              IF K(i) = 0 THEN rb.buf[i] ELSE data[K(i)]]]

\* write, step 2: advance tail by len(data) modulo the capacity.
AdvanceTail(rb, n) == [rb EXCEPT !.tail = (rb.tail + n) % rb.size]

\* write, step 3: pending_writes becomes v (v is the incremented value).
SetPending(rb, v) == [rb EXCEPT !.pending_writes = v]

\* write(data) run without preemption.
Write(rb, data) ==
    LET r1 == CopyIn(rb, data)
        r2 == AdvanceTail(r1, Len(data))
    IN  SetPending(r2, r2.pending_writes + 1)

\* The contiguous run starting at head: up to tail, or up to the end of the
\* buffer when the queued bytes wrap around.
Run(rb) == IF rb.tail > rb.head THEN rb.tail - rb.head ELSE rb.size - rb.head

\* start_transmission arms the hardware with the contiguous run at head.
Arm(rb) == [rb EXCEPT !.sending_elements = Run(rb)]

\* start_transmission without the test for a transmission in progress.
StartIsNoOp_unguarded(rb) == Empty(rb)

\* start_transmission does nothing while a transmission is armed or when
\* the buffer is empty.
StartIsNoOp(rb) == rb.sending_elements # 0 \/ Empty(rb)

\* start_transmission()
StartTransmission(rb) == IF StartIsNoOp(rb) THEN rb ELSE Arm(rb)

\* finish_transmission(): advance head past the bytes just sent, decrement
\* pending_writes, re-arm when bytes remain.
FinishTransmission(rb) ==
    LET r1 == [rb EXCEPT !.head = (rb.head + rb.sending_elements) % rb.size,
                         !.pending_writes = rb.pending_writes - 1,
                         !.sending_elements = 0]
    IN  StartTransmission(r1)

\* The transmitter after a producer call that took the structure from rb to
\* r2: a call that armed a transmission started the hardware.
UartAfter(rb, r2, u) ==
    IF rb.sending_elements = 0 /\ r2.sending_elements # 0 THEN "armed" ELSE u

\* The bytes of the armed run, as the hardware reads them from the buffer.
ArmedBytes(rb) ==
    [k \in 1..rb.sending_elements |-> rb.buf[(rb.head + k - 1) % rb.size]]

\* Handler of finished LED UART transmissions.
LedUartTxend(rb) == FinishTransmission(rb)

\* ------------------------------------------------------------------------
\* Hardware and interrupt context (both specifications)
\* ------------------------------------------------------------------------

\* The transmitter shifts the armed run out on the wire.
HwTransfer ==
    /\ uart = "armed"
    /\ sink' = sink \o ArmedBytes(led_uart_ringbuf)
    /\ uart' = "done"
    /\ UNCHANGED <<led_uart_ringbuf, lvars, pvars, hvars>>

\* The transmission-complete interrupt: runs led_uart_txend to its end.
TxEnd ==
    /\ uart = "done"
    /\ led_uart_ringbuf' = LedUartTxend(led_uart_ringbuf)
    /\ uart' = IF led_uart_ringbuf'.sending_elements # 0 THEN "armed" ELSE "idle"
    /\ freed' = freed + led_uart_ringbuf.sending_elements
    /\ nfinish' = nfinish + 1
    /\ UNCHANGED <<sink, lvars, pvars, op, pre, nops, written, nwrites, arg,
                   keys_down, busy_starts>>

\* ------------------------------------------------------------------------
\* SpecQ: the queue alone, producer split into its steps
\* ------------------------------------------------------------------------

\* Free capacity: the capacity less the bytes written and not yet released.
FreeSpace == led_uart_ringbuf.size - (Len(written) - freed)

\* The bytes of the next write: consecutive numbers, so that every byte of
\* the stream is distinguishable.
NextData(n) == [k \in 1..n |-> Byte(Len(written) + k)]

\* write: copy the bytes.
QWriteCopy(data) ==
    /\ pc = "idle"
    /\ nwrites < MaxWrites
    /\ Len(data) <= FreeSpace
    /\ led_uart_ringbuf' = CopyIn(led_uart_ringbuf, data)
    /\ wdata' = data
    /\ written' = written \o data
    /\ pc' = "w_tail"
    /\ op' = "write"
    /\ UNCHANGED <<uart, sink, lvars, cont, reg, pre, nops, freed, nwrites,
                   nfinish, arg, keys_down, busy_starts>>

\* write: advance tail.
QWriteTail ==
    /\ pc = "w_tail"
    /\ led_uart_ringbuf' = AdvanceTail(led_uart_ringbuf, Len(wdata))
    /\ pc' = "w_load"
    /\ UNCHANGED <<uart, sink, lvars, cont, wdata, reg, hvars>>

\* write: pending_writes++ begins, the value is loaded.
QWriteLoad ==
    /\ pc = "w_load"
    /\ reg' = led_uart_ringbuf.pending_writes
    /\ pc' = "w_store"
    /\ UNCHANGED <<qvars, lvars, cont, wdata, hvars>>

\* write: pending_writes++ ends, the incremented value is stored.
QWriteStore ==
    /\ pc = "w_store"
    /\ led_uart_ringbuf' = SetPending(led_uart_ringbuf, reg + 1)
    /\ pc' = "idle"
    /\ wdata' = <<>>
    /\ reg' = 0
    /\ nwrites' = nwrites + 1
    /\ UNCHANGED <<uart, sink, lvars, cont, op, pre, nops, written, freed,
                   nfinish, arg, keys_down, busy_starts>>

\* start_transmission: test for a transmission in progress and for data.
QStartTest ==
    /\ pc = "idle"
    /\ op' = "start_transmission"
    /\ pc' = IF StartIsNoOp(led_uart_ringbuf) THEN "idle" ELSE "s_arm"
    /\ busy_starts' = IF uart # "idle" /\ busy_starts < MaxBusy
                      THEN busy_starts + 1 ELSE busy_starts
    /\ UNCHANGED <<qvars, lvars, cont, wdata, reg, pre, nops, written, freed,
                   nwrites, nfinish, arg, keys_down>>

\* start_transmission: arm the hardware.
QStartArm ==
    /\ pc = "s_arm"
    /\ led_uart_ringbuf' = Arm(led_uart_ringbuf)
    /\ uart' = "armed"
    /\ pc' = "idle"
    /\ UNCHANGED <<sink, lvars, cont, wdata, reg, hvars>>

InitL ==
    /\ leds_awake = FALSE
    /\ backlight_active = FALSE
    /\ capslock_active = FALSE
    /\ pin = 0
    /\ keystate = <<9, 10, 7, 0, 0, 0, 0, 0, 0, 0, 0, 0>>

InitP ==
    /\ pc = "idle"
    /\ cont = "none"
    /\ wdata = <<>>
    /\ reg = 0
    /\ op = "init"
    /\ pre = [awake |-> FALSE, bl |-> FALSE, caps |-> FALSE]
    /\ nops = 0
    /\ written = <<>>
    /\ freed = 0
    /\ nwrites = 0
    /\ nfinish = 0
    /\ arg = <<>>
    /\ keys_down = {}
    /\ busy_starts = 0
    /\ uart = "idle"
    /\ sink = <<>>

InitQ ==
    /\ led_uart_ringbuf = RingbufInit(QSize)
    /\ InitL
    /\ InitP

NextQ ==
    \/ \E n \in 1..MaxWriteLen : QWriteCopy(NextData(n))
    \/ QWriteTail
    \/ QWriteLoad
    \/ QWriteStore
    \/ QStartTest
    \/ QStartArm
    \/ HwTransfer
    \/ TxEnd

SpecQ == InitQ /\ [][NextQ]_vars

\* ------------------------------------------------------------------------
\* Lighting controller (anne_pro_lighting.c)
\*
\* The handlers are functions of the driver's state st: the ring buffer,
\* the three flags, the power pin and the keystate packet, with the bytes
\* and the number of writes the call has issued so far (out, nw).
\* ------------------------------------------------------------------------

Pow2(n) == IF n = 0 THEN 1 ELSE IF n = 1 THEN 2 ELSE IF n = 2 THEN 4
           ELSE IF n = 3 THEN 8 ELSE IF n = 4 THEN 16 ELSE IF n = 5 THEN 32
           ELSE IF n = 6 THEN 64 ELSE 128

\* (b >> n) & 1
BitOf(b, n) == (b \div Pow2(n)) % 2

\* IS_LED_ON(usb_led, led): usb_led & (1 << led)
IS_LED_ON(usb_led, led) == BitOf(usb_led, led) = 1

\* IS_NOEVENT(event): no time stamp, or the key position (255, 255)
IS_NOEVENT(event) ==
    event.time = 0 \/ (event.row = 255 /\ event.col = 255)

\* The driver's state at the start of a call.
Cur ==
    [rb |-> led_uart_ringbuf,
     awake |-> leds_awake,
     bl |-> backlight_active,
     caps |-> capslock_active,
     pin |-> pin,
     ks |-> keystate,
     out |-> <<>>,
     nw |-> 0]

\* uart_tx_ringbuf_write(&led_uart_ringbuf, count, data)
TxWrite(st, data) ==
    [st EXCEPT !.rb = Write(st.rb, data),
               !.out = st.out \o data,
               !.nw = st.nw + 1]

\* uart_tx_ringbuf_start_transmission(&led_uart_ringbuf)
TxStart(st) == [st EXCEPT !.rb = StartTransmission(st.rb)]

\* anne_pro_lighting_on, up to the settle delay: the pin is driven high.
anne_pro_lighting_on_wake(st) == [st EXCEPT !.pin = 1]

\* anne_pro_lighting_on, after the settle delay.
anne_pro_lighting_on_awake(st) == [st EXCEPT !.awake = TRUE]

\* anne_pro_lighting_off
anne_pro_lighting_off(st) == [st EXCEPT !.pin = 0, !.awake = FALSE]

\* led_set_kb, capslock on, before the call of anne_pro_lighting_on.
led_set_kb_mark(st) == [st EXCEPT !.caps = TRUE]

\* led_set_kb, capslock on, after the call of anne_pro_lighting_on.
led_set_kb_indicate(st) == TxStart(TxWrite(st, <<9, 2, 12, 1>>))

\* led_set_kb, capslock off.
led_set_kb_clear(st) ==
    [TxStart(TxWrite(st, <<9, 2, 12, 0>>)) EXCEPT !.caps = FALSE]

\* keystate[3 + index] |= (1 << bit)  or  &= ~(1 << bit)
KeystateUpdate(ks, row, col, pressed) ==
    LET position == row * MATRIX_COLS + col
        index == position \div 8
        bit == position % 8
        old == ks[3 + index + 1]
        new == IF pressed
               THEN (IF BitOf(old, bit) = 1 THEN old ELSE old + Pow2(bit))
               ELSE (IF BitOf(old, bit) = 1 THEN old - Pow2(bit) ELSE old)
    IN  [ks EXCEPT ![3 + index + 1] = new]

\* anne_pro_lighting_update_dynamic
anne_pro_lighting_update_dynamic(st, record) ==
    IF IS_NOEVENT(record) THEN st
    ELSE IF st.bl
    THEN LET s1 == [st EXCEPT !.ks = KeystateUpdate(st.ks, record.row,
                                                    record.col, record.pressed)]
         IN  TxStart(TxWrite(s1, s1.ks))
    ELSE st

\* anne_pro_lighting_update with the sleep condition taken on the wrong
\* side: the controller is put to sleep while it has users.
anne_pro_lighting_update_sleepy(st) ==
    LET s1 == IF ~Empty(st.rb) THEN TxStart(st) ELSE st
        user_active == s1.bl \/ s1.caps
    IN  IF s1.awake /\ user_active THEN anne_pro_lighting_off(s1) ELSE s1

\* anne_pro_lighting_update
anne_pro_lighting_update(st) ==
    LET s1 == IF ~Empty(st.rb) THEN TxStart(st) ELSE st
        user_active == s1.bl \/ s1.caps
    IN  IF s1.awake /\ ~user_active THEN anne_pro_lighting_off(s1) ELSE s1

\* anne_pro_lighting_rate_next
anne_pro_lighting_rate_next(st) ==
    IF st.bl THEN TxWrite(st, <<9, 4, 5, 0, 1, 0>>) ELSE st

\* anne_pro_lighting_brightness_next
anne_pro_lighting_brightness_next(st) ==
    IF st.bl THEN TxWrite(st, <<9, 4, 5, 0, 0, 1>>) ELSE st

\* anne_pro_lighting_mode_next
anne_pro_lighting_mode_next(st) ==
    IF st.bl THEN TxWrite(st, <<9, 4, 5, 1, 0, 0>>) ELSE st

\* anne_pro_lighting_mode marking the backlight active whatever the mode.
anne_pro_lighting_mode_always_active(st, mode) ==
    IF st.awake
    THEN [TxStart(TxWrite(st, <<9, 2, 1, mode>>)) EXCEPT !.bl = TRUE]
    ELSE st

\* anne_pro_lighting_mode
anne_pro_lighting_mode(st, mode) ==
    IF st.awake
    THEN [TxStart(TxWrite(st, <<9, 2, 1, mode>>)) EXCEPT !.bl = (mode # 0)]
    ELSE st

\* anne_pro_lighting_mode_last without the test of leds_awake.
anne_pro_lighting_mode_last_unguarded(st) ==
    [TxStart(TxWrite(st, <<9, 1, 1>>)) EXCEPT !.bl = TRUE]

\* anne_pro_lighting_mode_last
anne_pro_lighting_mode_last(st) ==
    IF st.awake
    THEN [TxStart(TxWrite(st, <<9, 1, 1>>)) EXCEPT !.bl = TRUE]
    ELSE st

\* anne_pro_lighting_rate_brightness
anne_pro_lighting_rate_brightness(st, rate, brightness) ==
    IF st.bl
    THEN LET b == IF brightness > 10 THEN 10 ELSE brightness
         IN  TxStart(TxWrite(st, <<9, 4, 2, rate, b, 0>>))
    ELSE st

\* anne_pro_lighting_set_keys, awake, up to the return of its first write:
\* the five header bytes are enqueued.
anne_pro_lighting_set_keys_header(st, keys) ==
    TxWrite(st, <<9, Byte(3 + 5 * keys), 11, 202, keys>>)

\* anne_pro_lighting_set_keys, from its second write to its end: the 5 * keys
\* payload bytes are enqueued and the backlight is marked active.
anne_pro_lighting_set_keys_payload(st, keys, payload) ==
    [TxWrite(st, SubSeq(payload, 1, 5 * keys)) EXCEPT !.bl = TRUE]

\* The variables after a call (or a part of one) that leaves the driver in
\* state st.
Becomes(st) ==
    /\ led_uart_ringbuf' = st.rb
    /\ uart' = UartAfter(led_uart_ringbuf, st.rb, uart)
    /\ leds_awake' = st.awake
    /\ backlight_active' = st.bl
    /\ capslock_active' = st.caps
    /\ pin' = st.pin
    /\ keystate' = st.ks
    /\ written' = written \o st.out
    /\ nwrites' = nwrites + st.nw
    /\ UNCHANGED <<sink, wdata, reg, freed, nfinish, busy_starts>>

\* A handler is entered from the main loop.
Enter(name) ==
    /\ pc = "idle"
    /\ nops < MaxOps
    /\ op' = name
    /\ pre' = [awake |-> leds_awake, bl |-> backlight_active,
               caps |-> capslock_active]
    /\ nops' = nops + 1

Return == pc' = "idle" /\ cont' = "none"

\* The handler was called with the arguments a; no key changes position.
Args(a) == arg' = a /\ keys_down' = keys_down

\* The matrix reports a press of a key that is up, a release of a key that
\* is down, or no event.
KeyEventPossible(down, record) ==
    \/ IS_NOEVENT(record)
    \/ record.pressed <=> (record.row * MATRIX_COLS + record.col \notin down)

\* The keys held down after the key event of record.
KeysAfter(down, record) ==
    IF IS_NOEVENT(record) THEN down
    ELSE IF record.pressed
         THEN down \cup {record.row * MATRIX_COLS + record.col}
         ELSE down \ {record.row * MATRIX_COLS + record.col}

\* The handler sleeps in the settle delay of anne_pro_lighting_on and will
\* continue as c.
Delay(c) == pc' = "on_delay" /\ cont' = c

\* The handler stands between the two writes of anne_pro_lighting_set_keys.
BetweenWrites == pc' = "set_keys_payload" /\ cont' = "none"

\* Inputs
UsbLeds == {0, 2}
Records ==
    {[time |-> 0, row |-> 0, col |-> 0, pressed |-> FALSE]} \cup
    {[time |-> 1, row |-> k[1], col |-> k[2], pressed |-> p] :
        k \in {<<0, 0>>, <<4, 13>>}, p \in BOOLEAN}
Modes == {0, 5}
RateBrightness == {<<1, 3>>, <<2, 11>>}
KeyCounts == {0, 1, 51}
Payload(keys) == [i \in 1..(5 * keys) |-> Byte(i)]

LedSetKb(usb_led) ==
    /\ Enter("led_set_kb")
    /\ Args(<<usb_led>>)
    /\ IF IS_LED_ON(usb_led, USB_LED_CAPS_LOCK)
       THEN IF leds_awake
            THEN Becomes(led_set_kb_indicate(led_set_kb_mark(Cur))) /\ Return
            ELSE Becomes(anne_pro_lighting_on_wake(led_set_kb_mark(Cur)))
                 /\ Delay("led_set_kb")
       ELSE Becomes(led_set_kb_clear(Cur)) /\ Return

UpdateDynamic(record) ==
    /\ Enter("update_dynamic")
    /\ KeyEventPossible(keys_down, record)
    /\ arg' = <<record>>
    /\ keys_down' = KeysAfter(keys_down, record)
    /\ Becomes(anne_pro_lighting_update_dynamic(Cur, record))
    /\ Return

Update ==
    /\ Enter("update")
    /\ Args(<<>>)
    /\ Becomes(anne_pro_lighting_update(Cur))
    /\ Return

Toggle ==
    /\ Enter("toggle")
    /\ Args(<<>>)
    /\ IF ~backlight_active
       THEN IF leds_awake
            THEN Becomes(anne_pro_lighting_mode_last(Cur)) /\ Return
            ELSE Becomes(anne_pro_lighting_on_wake(Cur)) /\ Delay("toggle")
       ELSE Becomes(anne_pro_lighting_mode(Cur, APL_MODE_OFF)) /\ Return

On ==
    /\ Enter("on")
    /\ Args(<<>>)
    /\ IF leds_awake
       THEN Becomes(Cur) /\ Return
       ELSE Becomes(anne_pro_lighting_on_wake(Cur)) /\ Delay("on")

\* The settle delay of anne_pro_lighting_on is over: the controller is
\* marked awake and the caller of on() runs to its end.
OnDelayEnd ==
    /\ pc = "on_delay"
    /\ LET st == anne_pro_lighting_on_awake(Cur)
       IN  CASE cont = "led_set_kb" -> Becomes(led_set_kb_indicate(st))
             [] cont = "toggle" -> Becomes(anne_pro_lighting_mode_last(st))
             [] OTHER -> Becomes(st)
    /\ Return
    /\ UNCHANGED <<op, pre, nops, arg, keys_down>>

Off ==
    /\ Enter("off")
    /\ Args(<<>>)
    /\ Becomes(anne_pro_lighting_off(Cur))
    /\ Return

RateNext ==
    /\ Enter("rate_next")
    /\ Args(<<>>)
    /\ Becomes(anne_pro_lighting_rate_next(Cur))
    /\ Return

BrightnessNext ==
    /\ Enter("brightness_next")
    /\ Args(<<>>)
    /\ Becomes(anne_pro_lighting_brightness_next(Cur))
    /\ Return

ModeNext ==
    /\ Enter("mode_next")
    /\ Args(<<>>)
    /\ Becomes(anne_pro_lighting_mode_next(Cur))
    /\ Return

Mode(mode) ==
    /\ Enter("mode")
    /\ Args(<<mode>>)
    /\ Becomes(anne_pro_lighting_mode(Cur, mode))
    /\ Return

ModeLast ==
    /\ Enter("mode_last")
    /\ Args(<<>>)
    /\ Becomes(anne_pro_lighting_mode_last(Cur))
    /\ Return

RateBrightnessSet(rate, brightness) ==
    /\ Enter("rate_brightness")
    /\ Args(<<rate, brightness>>)
    /\ Becomes(anne_pro_lighting_rate_brightness(Cur, rate, brightness))
    /\ Return

\* set_keys is called: asleep it returns at once; awake it enqueues the
\* header and stands between its two writes, where the completion interrupt
\* can come in.
SetKeys(keys, payload) ==
    /\ Enter("set_keys")
    /\ Args(<<keys, payload>>)
    /\ IF leds_awake
       THEN /\ Becomes(anne_pro_lighting_set_keys_header(Cur, keys))
            /\ BetweenWrites
       ELSE Becomes(Cur) /\ Return

\* set_keys makes its second write and returns.
SetKeysPayload ==
    /\ pc = "set_keys_payload"
    /\ Becomes(anne_pro_lighting_set_keys_payload(Cur, arg[1], arg[2]))
    /\ Return
    /\ UNCHANGED <<op, pre, nops, arg, keys_down>>

Init ==
    /\ led_uart_ringbuf = RingbufInit(BufSize)
    /\ InitL
    /\ InitP

Next ==
    \/ \E usb_led \in UsbLeds : LedSetKb(usb_led)
    \/ \E record \in Records : UpdateDynamic(record)
    \/ Update
    \/ Toggle
    \/ On
    \/ OnDelayEnd
    \/ Off
    \/ RateNext
    \/ BrightnessNext
    \/ ModeNext
    \/ \E mode \in Modes : Mode(mode)
    \/ ModeLast
    \/ \E rb \in RateBrightness : RateBrightnessSet(rb[1], rb[2])
    \/ \E keys \in KeyCounts : SetKeys(keys, Payload(keys))
    \/ SetKeysPayload
    \/ HwTransfer
    \/ TxEnd

Spec == Init /\ [][Next]_vars

\* The controller when nothing but update() calls anne_pro_lighting_off.
NextNoOff ==
    \/ \E usb_led \in UsbLeds : LedSetKb(usb_led)
    \/ \E record \in Records : UpdateDynamic(record)
    \/ Update
    \/ Toggle
    \/ On
    \/ OnDelayEnd
    \/ RateNext
    \/ BrightnessNext
    \/ ModeNext
    \/ \E mode \in Modes : Mode(mode)
    \/ ModeLast
    \/ \E rb \in RateBrightness : RateBrightnessSet(rb[1], rb[2])
    \/ \E keys \in KeyCounts : SetKeys(keys, Payload(keys))
    \/ SetKeysPayload
    \/ HwTransfer
    \/ TxEnd

SpecNoOff == Init /\ [][NextNoOff]_vars

\* ------------------------------------------------------------------------
\* Properties of the transmit queue (SpecQ)
\* ------------------------------------------------------------------------

IsPrefix(s, t) == Len(s) <= Len(t) /\ SubSeq(t, 1, Len(s)) = s

\* The producer is between calls.
AtBoundary == pc = "idle"

\* start_transmission was the last producer call, it has returned, and the
\* hardware has gone idle since: nothing more will be sent unless the
\* producer acts again.
Drained == op = "start_transmission" /\ pc = "idle" /\ uart = "idle"

\* C1: with every write fitting in the free capacity, the bytes on the wire
\* are the written bytes in call order (never a byte out of place), and
\* once start_transmission has been called and the hardware has gone idle
\* every written byte has been delivered exactly once.
C1_RoundTrip ==
    /\ IsPrefix(sink, written)
    /\ Drained => sink = written

\* C2: whatever the points at which the completion interrupt preempts the
\* producer, between calls head, tail and pending_writes have the values of
\* a non-interleaved execution of the same calls (tail after the bytes
\* written, head after the bytes released, pending_writes the writes less
\* the finishes) and the wire carries the written bytes in order.
C2_Preemption ==
    AtBoundary =>
        /\ led_uart_ringbuf.tail = Len(written) % led_uart_ringbuf.size
        /\ led_uart_ringbuf.head = freed % led_uart_ringbuf.size
        /\ led_uart_ringbuf.pending_writes = nwrites - nfinish
        /\ IsPrefix(sink, written)

\* C4: between calls, pending_writes = 0 exactly when is_empty() holds, and
\* is_empty() holds exactly when no data is buffered and the hardware is
\* idle.  Stated for the queues that are not filled to the last byte, where
\* head = tail is not ambiguous.
C4_PendingIffEmpty ==
    (AtBoundary /\ Len(written) - freed < led_uart_ringbuf.size) =>
        /\ (led_uart_ringbuf.pending_writes = 0) <=> Empty(led_uart_ringbuf)
        /\ Empty(led_uart_ringbuf) <=> (Len(written) - freed = 0 /\ uart = "idle")

\* C5: pending_writes is never negative.  Stated between calls, where no
\* increment of a write in progress is outstanding.
C5_PendingNonNegative == AtBoundary => led_uart_ringbuf.pending_writes >= 0

\* ------------------------------------------------------------------------
\* Properties of the lighting controller (Spec)
\* ------------------------------------------------------------------------

\* C3: every enqueued command is eventually transmitted in full.  Stated in
\* the form a finite run refutes: update() calls start_transmission
\* whenever the queue is not empty, so once update() has returned and the
\* hardware has gone idle nothing more is sent until a new command comes,
\* and every byte enqueued so far must be on the wire.
C3_EventuallySent ==
    (op = "update" /\ pc = "idle" /\ uart = "idle") => sink = written

\* C6: a step of the controller enqueues bytes only with leds_awake true.
C6_NoWriteAsleep ==
    [][Len(written') > Len(written) => leds_awake']_vars

\* C7: a step of update() that takes the power pin from high to low leaves
\* the queue empty and the hardware idle.
C7_SleepOnlyWhenDrained ==
    [][(op' = "update" /\ nops' # nops /\ pin = 1 /\ pin' = 0)
         => (Empty(led_uart_ringbuf') /\ uart' = "idle")]_vars

\* C8: an operation that enqueues bytes with the hardware idle returns with
\* the hardware transmitting.
C8_EnqueueThenKick ==
    [][(Len(written') > Len(written) /\ pc' = "idle" /\ uart = "idle")
         => uart' # "idle"]_vars

\* C9: after update(): taken awake with neither backlight nor capslock
\* active the controller is asleep and the pin is low; taken with one of
\* them active, awake is as before; backlight_active and capslock_active
\* are as before.
C9_MaintenanceTick ==
    (op = "update" /\ pc = "idle") =>
        /\ (pre.awake /\ ~pre.bl /\ ~pre.caps) => (~leds_awake /\ pin = 0)
        /\ (pre.bl \/ pre.caps) => (leds_awake = pre.awake)
        /\ backlight_active = pre.bl
        /\ capslock_active = pre.caps

\* C9 witness: update() has just put an awake, unused controller to sleep.
C9_Witness ==
    /\ op = "update" /\ pc = "idle"
    /\ pre.awake /\ ~pre.bl /\ ~pre.caps
    /\ ~leds_awake /\ pin = 0

\* C10: during the settle delay of on() no transmission is armed or in
\* progress.
C10_QuietDuringSettle == pc = "on_delay" => uart = "idle"

\* ------------------------------------------------------------------------
\* Further properties of the lighting controller (Spec, SpecNoOff)
\* ------------------------------------------------------------------------

\* The step is the entry of a handler from the main loop.
Entered(name) == op' = name /\ nops' # nops

\* The last n elements of s.
Last(s, n) == SubSeq(s, Len(s) - n + 1, Len(s))

\* C11: set_mode(m) called awake appends exactly 09 02 01 m (tail moves by
\* four), requests transmission (an idle transmitter with a non-empty queue
\* is armed), sets backlight_active to (m # 0) and leaves leds_awake and
\* capslock_active alone.
C11_SetModeAwake ==
    [][(Entered("mode") /\ leds_awake) =>
         LET m == arg'[1]
             rb == led_uart_ringbuf
         IN  /\ written' = written \o <<9, 2, 1, m>>
             /\ rb'.tail = (rb.tail + 4) % rb.size
             /\ (uart = "idle" /\ ~Empty(rb')) => uart' = "armed"
             /\ backlight_active' = (m # 0)
             /\ leds_awake' = leds_awake
             /\ capslock_active' = capslock_active]_vars

\* C11 witness: set_mode(5) was called awake, its four bytes are the last
\* enqueued and the backlight is active.
C11_Witness ==
    /\ op = "mode" /\ pc = "idle" /\ arg = <<5>> /\ pre.awake
    /\ Len(written) >= 4 /\ Last(written, 4) = <<9, 2, 1, 5>>
    /\ backlight_active

\* C12: set_mode(0) called asleep enqueues nothing and leaves
\* backlight_active false.
C12_SetModeOffAsleep ==
    [][(Entered("mode") /\ ~leds_awake /\ arg' = <<0>>) =>
         (written' = written /\ ~backlight_active')]_vars

\* C16: when set_key_colors(N, payload), called awake, has returned, the last
\* bytes enqueued are the header 09, 3 + 5 * N, 0b, ca, N, the second byte
\* being the number 3 + 5 * N itself, followed by the 5 * N payload bytes.
C16_SetKeysHeader ==
    (op = "set_keys" /\ pc = "idle" /\ pre.awake) =>
        LET N == arg[1]
            payload == arg[2]
        IN  /\ Len(written) >= 5 + 5 * N
            /\ Last(written, 5 + 5 * N) =
                   <<9, 3 + 5 * N, 11, 202, N>> \o SubSeq(payload, 1, 5 * N)

\* C17: the controller never has more bytes written and not yet released
\* than its queue holds, that is, every write it issues fits in the free
\* space.
C17_WritesFit == Len(written) - freed <= led_uart_ringbuf.size

\* C18: after toggle() backlight_active is the negation of what it was.
C18_ToggleInverts ==
    (op = "toggle" /\ pc = "idle") => (backlight_active = ~pre.bl)

\* The keys whose bit is set in the bitmap of the keystate packet ks.
Bitmap(ks) == {p \in 0..71 : BitOf(ks[4 + (p \div 8)], p % 8) = 1}

\* C19: the header of the keystate packet is 09 0a 07, and the packet that
\* update_dynamic enqueues on a key event has set exactly the bits of the
\* keys held down.
C19_KeystateMatchesKeys ==
    /\ SubSeq(keystate, 1, 3) = <<9, 10, 7>>
    /\ (op = "update_dynamic" /\ pre.bl /\ ~IS_NOEVENT(arg[1]))
         => Bitmap(keystate) = keys_down

\* C20: with anne_pro_lighting_off called by update() only, between
\* operations an active consumer implies a powered chip.
C20_ActiveImpliesAwake ==
    pc = "idle" => ((backlight_active \/ capslock_active) => leds_awake)

\* C20 witness: an update() tick taken with the backlight active has left
\* the chip awake.
C20_Witness ==
    op = "update" /\ pc = "idle" /\ backlight_active /\ leds_awake

\* ------------------------------------------------------------------------
\* Further properties of the transmit queue (SpecQ)
\* ------------------------------------------------------------------------

\* The step is a call of start_transmission (its test).
StartCalled ==
    /\ pc = "idle" /\ op' = "start_transmission"
    /\ sink' = sink /\ nfinish' = nfinish

\* C13: start_transmission called while the hardware is transmitting
\* changes neither the structure nor the armed transmission nor the wire,
\* and returns at once.
C13_StartIdempotent ==
    [][(StartCalled /\ uart # "idle") =>
         (led_uart_ringbuf' = led_uart_ringbuf /\ uart' = uart
          /\ sink' = sink /\ pc' = "idle")]_vars

\* C13 witness: start_transmission has been called on a busy transmitter
\* and the transmission is still under way.
C13_Witness ==
    busy_starts >= 1 /\ op = "start_transmission" /\ pc = "idle"
    /\ uart # "idle"

\* The bytes written and not yet released reach past the end of the buffer.
Straddling ==
    led_uart_ringbuf.head + (Len(written) - freed) > led_uart_ringbuf.size

\* C14: every armed chunk is contiguous; a chunk armed while the queued
\* bytes wrap around runs from head to the buffer end; the finish of such a
\* chunk, with bytes waiting at index 0, arms the chunk from 0 to tail; and
\* the straddling bytes all reach the wire in order: they are not left
\* behind once start_transmission has been called and the hardware has gone
\* idle.
C14_Wraparound ==
    [][LET rb == led_uart_ringbuf
           arming == rb'.sending_elements # 0
                     /\ (rb.sending_elements = 0 \/ nfinish' # nfinish)
       IN  /\ uart' # "idle" => rb'.head + rb'.sending_elements <= rb.size
           /\ (arming /\ rb'.tail < rb'.head)
                => rb'.head + rb'.sending_elements = rb.size
           /\ (nfinish' # nfinish /\ rb.head + rb.sending_elements = rb.size
               /\ 0 < rb.tail /\ rb.tail < rb.head)
                => (rb'.head = 0 /\ rb'.sending_elements = rb.tail
                    /\ uart' = "armed")
           /\ IsPrefix(sink', written')
           /\ ~(Straddling' /\ Drained')]_vars

\* The queue holds as many unreleased bytes as its capacity.
Full == Len(written) - freed = led_uart_ringbuf.size

\* C15: a queue filled to its capacity is not empty, and its bytes are not
\* left behind once start_transmission has been called and the hardware has
\* gone idle.
C15_FullQueueDelivered ==
    /\ (AtBoundary /\ Full) => ~Empty(led_uart_ringbuf)
    /\ Drained => ~Full

====
